---- MODULE Spec2Model ----
(***************************************************************************)
(* Model of the connection decorator WrappedConn of instrumentedsql        *)
(* (conn.go, conn_go19.go).  A WrappedConn holds the options and the       *)
(* parent driver connection; every method forwards to the parent, choosing *)
(* the modern (context-accepting) or the legacy form by a dynamic type     *)
(* assertion, and brackets the call with a span and a log record unless    *)
(* the operation kind is excluded.                                         *)
(*                                                                         *)
(* A method is one action.  What the method does is recorded as the trace  *)
(* of the events it causes, in program order: span creation and labels,    *)
(* the call on the parent, and the deferred SetError / Finish / Log.       *)
(* The parent, the clock and the context are the environment: what the     *)
(* parent returns, how long the call took and whether the context is done  *)
(* are chosen freely for each call.                                        *)
(***************************************************************************)
EXTENDS Integers, Sequences, FiniteSets, TLC

\* ---------------------------------------------------------------- bounds
MaxArgs == 1        \* longest argument list passed to Exec/Query
MaxSpans == 1       \* calls are made until this many spans were started

\* ------------------------------------------------------------- constants
\* operation kinds (identifiers used by conn.go)
OpSQLTxBegin == "sql-tx-begin"
OpSQLPrepare == "sql-prepare"
OpSQLConnExec == "sql-conn-exec"
OpSQLConnQuery == "sql-conn-query"
OpSQLPing == "sql-ping"
OpSQLDummyPing == "sql-dummy-ping"

Kinds == {OpSQLTxBegin, OpSQLPrepare, OpSQLConnExec, OpSQLConnQuery, OpSQLPing}

\* error values
NoErr == "nil"
ErrSkip == "driver.ErrSkip"
ErrNamedParams == "namedValueToValue: named parameter"
ErrParent == "parent error"
Canceled == "context.Canceled"
DeadlineExceeded == "context.DeadlineExceeded"

\* the optional interfaces a parent connection may implement
Capabilities ==
  {"ConnBeginTx", "ConnPrepareContext", "Execer", "ExecerContext",
   "Pinger", "Queryer", "QueryerContext", "NamedValueChecker"}

Legacy == {"Execer", "Queryer"}
Modern == Capabilities \ Legacy

\* the parents the model wraps: for every operation each combination of
\* modern and legacy capability occurs in one of them
Parents == {{}, Legacy, Modern, Capabilities}

\* ---------------------------------------------------------------- values
NilArt == [type |-> "nil"]
NilCtx == [id |-> "nil", err |-> NoErr]
NoQuery == ""
NoArgs == <<>>

Contexts == {[id |-> "ctx", err |-> e] : e \in {NoErr, Canceled, DeadlineExceeded}}
Queries == {"SELECT 1"}
TxOptions == {[Isolation |-> 0, ReadOnly |-> FALSE], [Isolation |-> 0, ReadOnly |-> TRUE]}
\* what time.Since(start) reports: no time, or a call that took long
Elapsed == {0, 2}

Values == {[v |-> "a"]}
Names == {"", "id"}

\* driver.NamedValue lists: the Ordinal of an argument is its position
NamedValueLists ==
  UNION {[1..n -> Names \X Values] : n \in 0..MaxArgs}

NamedValue(name, ordinal, value) == [Name |-> name, Ordinal |-> ordinal, Value |-> value]

ArgsOf(l) == [n \in 1..Len(l) |-> NamedValue(l[n][1], n, l[n][2])]

NamedArgs == {ArgsOf(l) : l \in NamedValueLists}

\* what a parent call returns: a value and an error
Responses == [art : {"nil", "parent artifact"}, err : {NoErr, ErrParent}]
ErrResponses == {r \in Responses : r.art = "nil"}

\* the exclusion sets the model configures: every kind is excluded by two of
\* them and included by the two others
ExclusionSets ==
  {{}, {OpSQLTxBegin, OpSQLConnExec, OpSQLPing}, {OpSQLPrepare, OpSQLConnQuery}, Kinds}

Options == [excludedOps : ExclusionSets, OmitArgs : BOOLEAN]

\* ---------------------------------------------------------------- events
NewChild(kind) == [ev |-> "NewChild", kind |-> kind]
SetLabel(key, value) == [ev |-> "SetLabel", key |-> key, value |-> [label |-> value]]
SetError(err) == [ev |-> "SetError", err |-> err]
Finish == [ev |-> "Finish"]
Log(ctx, kind, kv) == [ev |-> "Log", ctx |-> ctx, kind |-> kind, kv |-> kv]
ParentCall(method, ctx, query, args) ==
  [ev |-> "Parent", method |-> method, ctx |-> ctx, query |-> query, args |-> args]

Outcome(trace, art, err) == [trace |-> trace, art |-> art, err |-> err]

\* ------------------------------------------------------- context, helpers
Done(ctx) == ctx.err # NoErr
Err(ctx) == ctx.err

hasOpExcluded(c, kind) == kind \in c.opts.excludedOps

formatArgs(args) == [n \in 1..Len(args) |-> args[n].Value.v]

RECURSIVE namedValueToValue(_)
namedValueToValue(named) ==
  IF named = <<>> THEN [vals |-> <<>>, err |-> NoErr]
  ELSE LET param == Head(named)
           rest == namedValueToValue(Tail(named))
       IN IF param.Name # "" THEN [vals |-> <<>>, err |-> ErrNamedParams]
          ELSE IF rest.err # NoErr THEN rest
          ELSE [vals |-> <<param.Value>> \o rest.vals, err |-> NoErr]

logQuery(ctx, o, op, query, err, args, el) ==
  Log(ctx, op,
      IF ~o.OmitArgs /\ args # NoArgs
      THEN [query |-> query, err |-> err, duration |-> el, args |-> formatArgs(args)]
      ELSE [query |-> query, err |-> err, duration |-> el])

\* the decorators of the artifacts
wrappedStmt(o, ctx, query, parent) ==
  [type |-> "wrappedStmt", opts |-> o, ctx |-> ctx, query |-> query, parent |-> parent]
wrappedTx(o, ctx, parent) ==
  [type |-> "wrappedTx", opts |-> o, ctx |-> ctx, parent |-> parent]
wrappedResult(o, ctx, parent) ==
  [type |-> "wrappedResult", opts |-> o, ctx |-> ctx, parent |-> parent]
wrappedRows(o, ctx, parent) ==
  [type |-> "wrappedRows", opts |-> o, ctx |-> ctx, parent |-> parent]

\* ------------------------------------------------------ legacy operations
\* Each operation takes the decorator c, the caller's inputs, the response
\* resp the parent gives to the call made on it (if one is made) and the
\* time el measured by the deferred function, and yields the trace of the
\* call with the artifact and the error returned to the caller.

Prepare(c, query, resp) ==
  LET call == <<ParentCall("Prepare", NilCtx, query, NoArgs)>>
  IN IF resp.err # NoErr
     THEN Outcome(call, NilArt, resp.err)
     ELSE Outcome(call, wrappedStmt(c.opts, NilCtx, query, resp.art), NoErr)

Close(c, resp) ==
  Outcome(<<ParentCall("Close", NilCtx, NoQuery, NoArgs)>>, NilArt, resp.err)

\* Begin calling the parent a second time when the first call fails
Begin_Retry(c, resp) ==
  LET call == <<ParentCall("Begin", NilCtx, NoQuery, NoArgs)>>
  IN IF resp.err # NoErr
     THEN Outcome(call \o call, NilArt, resp.err)
     ELSE Outcome(call, wrappedTx(c.opts, NilCtx, resp.art), NoErr)

Begin(c, resp) ==
  LET call == <<ParentCall("Begin", NilCtx, NoQuery, NoArgs)>>
  IN IF resp.err # NoErr
     THEN Outcome(call, NilArt, resp.err)
     ELSE Outcome(call, wrappedTx(c.opts, NilCtx, resp.art), NoErr)

Exec(c, query, args, resp) ==
  IF "Execer" \in c.Parent
  THEN LET call == <<ParentCall("Exec", NilCtx, query, args)>>
       IN IF resp.err # NoErr
          THEN Outcome(call, NilArt, resp.err)
          ELSE Outcome(call, wrappedResult(c.opts, NilCtx, resp.art), NoErr)
  ELSE Outcome(<<>>, NilArt, ErrSkip)

Query(c, query, args, resp) ==
  IF "Queryer" \in c.Parent
  THEN LET call == <<ParentCall("Query", NilCtx, query, args)>>
       IN IF resp.err # NoErr
          THEN Outcome(call, NilArt, resp.err)
          ELSE Outcome(call, wrappedRows(c.opts, NilCtx, resp.art), NoErr)
  ELSE Outcome(<<>>, NilArt, ErrSkip)

CheckNamedValue(c, v, resp) ==
  IF "NamedValueChecker" \in c.Parent
  THEN Outcome(<<ParentCall("CheckNamedValue", NilCtx, NoQuery, <<v>>)>>, NilArt, resp.err)
  ELSE Outcome(<<>>, NilArt, ErrSkip)

\* ------------------------------------------- context-accepting operations
\* An instrumented operation is modelled in four parts: the statements that
\* start the span (XStart), the deferred function (XDeferred), the delegation
\* to the parent (XBody) and the method that puts them together (X).  The
\* deferred function runs after the return statement has assigned the named
\* result err, so it is given the error of the body.

BeginTxStart == <<NewChild(OpSQLTxBegin), SetLabel("component", "database/sql")>>

BeginTxDeferred(c, ctx, err, el) ==
  <<SetError(err), Finish, Log(ctx, OpSQLTxBegin, [err |-> err, duration |-> el])>>

BeginTxBody(c, ctx, txo, resp) ==
  IF "ConnBeginTx" \in c.Parent
  THEN LET call == <<ParentCall("BeginTx", ctx, NoQuery, <<txo>>)>>
       IN IF resp.err # NoErr
          THEN Outcome(call, NilArt, resp.err)
          ELSE Outcome(call, wrappedTx(c.opts, ctx, resp.art), NoErr)
  ELSE LET call == <<ParentCall("Begin", NilCtx, NoQuery, NoArgs)>>
       IN IF resp.err # NoErr
          THEN Outcome(call, NilArt, resp.err)
          ELSE Outcome(call, wrappedTx(c.opts, ctx, resp.art), NoErr)

BeginTx(c, ctx, txo, resp, el) ==
  LET body == BeginTxBody(c, ctx, txo, resp)
  IN IF ~hasOpExcluded(c, OpSQLTxBegin)
     THEN Outcome(BeginTxStart \o body.trace \o BeginTxDeferred(c, ctx, body.err, el),
                  body.art, body.err)
     ELSE body

PrepareContextStart == <<NewChild(OpSQLPrepare), SetLabel("component", "database/sql")>>

PrepareContextDeferred(c, ctx, query, err, el) ==
  <<SetError(err), Finish, logQuery(ctx, c.opts, OpSQLPrepare, query, err, NoArgs, el)>>

PrepareContextBody(c, ctx, query, resp) ==
  IF "ConnPrepareContext" \in c.Parent
  THEN LET call == <<ParentCall("PrepareContext", ctx, query, NoArgs)>>
       IN IF resp.err # NoErr
          THEN Outcome(call, NilArt, resp.err)
          ELSE Outcome(call, wrappedStmt(c.opts, ctx, query, resp.art), NoErr)
  ELSE Prepare(c, query, resp)

\* PrepareContext whose deferred function reads a result err that the inner
\* err of the modern branch never reached
PrepareContext_StaleErr(c, ctx, query, resp, el) ==
  LET body == PrepareContextBody(c, ctx, query, resp)
      err == IF "ConnPrepareContext" \in c.Parent THEN NoErr ELSE body.err
  IN IF ~hasOpExcluded(c, OpSQLPrepare)
     THEN Outcome(PrepareContextStart \o body.trace
                    \o PrepareContextDeferred(c, ctx, query, err, el),
                  body.art, body.err)
     ELSE body

PrepareContext(c, ctx, query, resp, el) ==
  LET body == PrepareContextBody(c, ctx, query, resp)
  IN IF ~hasOpExcluded(c, OpSQLPrepare)
     THEN Outcome(PrepareContextStart \o body.trace
                    \o PrepareContextDeferred(c, ctx, query, body.err, el),
                  body.art, body.err)
     ELSE body

ExecContextStart(c, query, args) ==
  <<NewChild(OpSQLConnExec), SetLabel("component", "database/sql"), SetLabel("query", query)>>
  \o (IF ~c.opts.OmitArgs THEN <<SetLabel("args", formatArgs(args))>> ELSE <<>>)

ExecContextDeferred(c, ctx, query, args, err, el) ==
  <<SetError(err), Finish, logQuery(ctx, c.opts, OpSQLConnExec, query, err, args, el)>>

\* ExecContext passing no values to the legacy Exec
ExecContextBody_DropsArgs(c, ctx, query, args, resp) ==
  IF "ExecerContext" \in c.Parent
  THEN LET call == <<ParentCall("ExecContext", ctx, query, args)>>
       IN IF resp.err # NoErr
          THEN Outcome(call, NilArt, resp.err)
          ELSE Outcome(call, wrappedResult(c.opts, ctx, resp.art), NoErr)
  ELSE LET dargs == namedValueToValue(args)
       IN IF dargs.err # NoErr
          THEN Outcome(<<>>, NilArt, dargs.err)
          ELSE IF Done(ctx)
               THEN Outcome(<<>>, NilArt, Err(ctx))
               ELSE Exec(c, query, <<>>, resp)

ExecContextBody(c, ctx, query, args, resp) ==
  IF "ExecerContext" \in c.Parent
  THEN LET call == <<ParentCall("ExecContext", ctx, query, args)>>
       IN IF resp.err # NoErr
          THEN Outcome(call, NilArt, resp.err)
          ELSE Outcome(call, wrappedResult(c.opts, ctx, resp.art), NoErr)
  ELSE LET dargs == namedValueToValue(args)
       IN IF dargs.err # NoErr
          THEN Outcome(<<>>, NilArt, dargs.err)
          ELSE IF Done(ctx)
               THEN Outcome(<<>>, NilArt, Err(ctx))
               ELSE Exec(c, query, dargs.vals, resp)

\* ExecContext logging the query whether or not the kind is excluded
ExecContext_LogsExcluded(c, ctx, query, args, resp, el) ==
  LET body == ExecContextBody(c, ctx, query, args, resp)
  IN IF ~hasOpExcluded(c, OpSQLConnExec)
     THEN Outcome(ExecContextStart(c, query, args) \o body.trace
                    \o ExecContextDeferred(c, ctx, query, args, body.err, el),
                  body.art, body.err)
     ELSE Outcome(body.trace
                    \o <<logQuery(ctx, c.opts, OpSQLConnExec, query, body.err, args, el)>>,
                  body.art, body.err)

\* ExecContext finishing the span on the successful path only
ExecContext_NoDefer(c, ctx, query, args, resp, el) ==
  LET body == ExecContextBody(c, ctx, query, args, resp)
  IN IF ~hasOpExcluded(c, OpSQLConnExec)
     THEN Outcome(ExecContextStart(c, query, args) \o body.trace
                    \o (IF body.err = NoErr
                        THEN ExecContextDeferred(c, ctx, query, args, body.err, el)
                        ELSE <<>>),
                  body.art, body.err)
     ELSE body

ExecContext(c, ctx, query, args, resp, el) ==
  LET body == ExecContextBody(c, ctx, query, args, resp)
  IN IF ~hasOpExcluded(c, OpSQLConnExec)
     THEN Outcome(ExecContextStart(c, query, args) \o body.trace
                    \o ExecContextDeferred(c, ctx, query, args, body.err, el),
                  body.art, body.err)
     ELSE body

PingStart == <<NewChild(OpSQLPing), SetLabel("component", "database/sql")>>

PingDeferred(c, ctx, err, el) ==
  <<SetError(err), Finish, Log(ctx, OpSQLPing, [err |-> err, duration |-> el])>>

\* Ping consulting the exclusion set before the capability
Ping_ExclusionFirst(c, ctx, resp, el) ==
  LET call == <<ParentCall("Ping", ctx, NoQuery, NoArgs)>>
  IN IF ~hasOpExcluded(c, OpSQLPing)
     THEN IF "Pinger" \in c.Parent
          THEN Outcome(PingStart \o call \o PingDeferred(c, ctx, resp.err, el),
                       NilArt, resp.err)
          ELSE Outcome(<<Log(ctx, OpSQLDummyPing, [duration |-> 0])>>, NilArt, NoErr)
     ELSE IF "Pinger" \in c.Parent
          THEN Outcome(call, NilArt, resp.err)
          ELSE Outcome(<<>>, NilArt, NoErr)

Ping(c, ctx, resp, el) ==
  IF "Pinger" \in c.Parent
  THEN LET call == <<ParentCall("Ping", ctx, NoQuery, NoArgs)>>
       IN IF ~hasOpExcluded(c, OpSQLPing)
          THEN Outcome(PingStart \o call \o PingDeferred(c, ctx, resp.err, el),
                       NilArt, resp.err)
          ELSE Outcome(call, NilArt, resp.err)
  ELSE Outcome(<<Log(ctx, OpSQLDummyPing, [duration |-> 0])>>, NilArt, NoErr)

QueryContextStart(c, query, args) ==
  <<NewChild(OpSQLConnQuery), SetLabel("component", "database/sql"), SetLabel("query", query)>>
  \o (IF ~c.opts.OmitArgs THEN <<SetLabel("args", formatArgs(args))>> ELSE <<>>)

QueryContextDeferred(c, ctx, query, args, err, el) ==
  <<SetError(err), Finish, logQuery(ctx, c.opts, OpSQLConnQuery, query, err, args, el)>>

\* QueryContext preferring the legacy Queryer to the QueryerContext
QueryContextBody_LegacyFirst(c, ctx, query, args, resp) ==
  IF "QueryerContext" \in c.Parent /\ "Queryer" \notin c.Parent
  THEN LET call == <<ParentCall("QueryContext", ctx, query, args)>>
       IN IF resp.err # NoErr
          THEN Outcome(call, NilArt, resp.err)
          ELSE Outcome(call, wrappedRows(c.opts, ctx, resp.art), NoErr)
  ELSE LET dargs == namedValueToValue(args)
       IN IF dargs.err # NoErr
          THEN Outcome(<<>>, NilArt, dargs.err)
          ELSE IF Done(ctx)
               THEN Outcome(<<>>, NilArt, Err(ctx))
               ELSE Query(c, query, dargs.vals, resp)

\* QueryContext checking the context before it converts the arguments
QueryContextBody_CheckFirst(c, ctx, query, args, resp) ==
  IF "QueryerContext" \in c.Parent
  THEN LET call == <<ParentCall("QueryContext", ctx, query, args)>>
       IN IF resp.err # NoErr
          THEN Outcome(call, NilArt, resp.err)
          ELSE Outcome(call, wrappedRows(c.opts, ctx, resp.art), NoErr)
  ELSE LET dargs == namedValueToValue(args)
       IN IF Done(ctx)
          THEN Outcome(<<>>, NilArt, Err(ctx))
          ELSE IF dargs.err # NoErr
               THEN Outcome(<<>>, NilArt, dargs.err)
               ELSE Query(c, query, dargs.vals, resp)

QueryContextBody(c, ctx, query, args, resp) ==
  IF "QueryerContext" \in c.Parent
  THEN LET call == <<ParentCall("QueryContext", ctx, query, args)>>
       IN IF resp.err # NoErr
          THEN Outcome(call, NilArt, resp.err)
          ELSE Outcome(call, wrappedRows(c.opts, ctx, resp.art), NoErr)
  ELSE LET dargs == namedValueToValue(args)
       IN IF dargs.err # NoErr
          THEN Outcome(<<>>, NilArt, dargs.err)
          ELSE IF Done(ctx)
               THEN Outcome(<<>>, NilArt, Err(ctx))
               ELSE Query(c, query, dargs.vals, resp)

QueryContext(c, ctx, query, args, resp, el) ==
  LET hasQueryerContext == "QueryerContext" \in c.Parent
      hasQueryer == "Queryer" \in c.Parent
      body == QueryContextBody(c, ctx, query, args, resp)
  IN IF ~hasQueryerContext /\ ~hasQueryer
     THEN Outcome(<<>>, NilArt, ErrSkip)
     ELSE IF ~hasOpExcluded(c, OpSQLConnQuery)
          THEN Outcome(QueryContextStart(c, query, args) \o body.trace
                         \o QueryContextDeferred(c, ctx, query, args, body.err, el),
                       body.art, body.err)
          ELSE body

\* ------------------------------------------------------------------ state
VARIABLES
  conn,           \* the WrappedConn: its opts and its Parent (the capabilities)
  op,             \* the method called last ("new" before the first call)
  input,          \* the inputs of that call and the environment's answers
  result,         \* its trace, and the artifact and error it returned
  twin,           \* the same call on the same parent, the kind not excluded
  spansStarted,   \* spans created since construction
  spansFinished   \* spans finished since construction

vars == <<conn, op, input, result, twin, spansStarted, spansFinished>>

WrappedConn(o, parent) == [opts |-> o, Parent |-> parent]

Count(trace, ev) == Len(SelectSeq(trace, LAMBDA e : e.ev = ev))
ParentCalls(trace) == SelectSeq(trace, LAMBDA e : e.ev = "Parent")

Input(ctx, query, args, resp, el) ==
  [ctx |-> ctx, query |-> query, args |-> args, resp |-> resp, el |-> el]

NoResponse == [art |-> "nil", err |-> NoErr]

NoInput == Input(NilCtx, NoQuery, NoArgs, NoResponse, 0)

\* the decorator with the given kind taken out of the exclusion set
Included(c, kind) == [c EXCEPT !.opts.excludedOps = @ \ {kind}]

Init ==
  /\ conn \in {WrappedConn(o, p) : o \in Options, p \in Parents}
  /\ op = "new"
  /\ input = NoInput
  /\ result = Outcome(<<>>, NilArt, NoErr)
  /\ twin = Outcome(<<>>, NilArt, NoErr)
  /\ spansStarted = 0
  /\ spansFinished = 0

\* one call of a method: its outcome is recorded and the spans are counted.
\* The parent answers only a call that is made on it, and the clock is read
\* only for a span.
Called(name, in, out, other) ==
  /\ spansStarted < MaxSpans
  /\ ParentCalls(out.trace) = <<>> => in.resp = NoResponse
  /\ Count(out.trace, "NewChild") = 0 => in.el = 0
  /\ op' = name
  /\ input' = in
  /\ result' = out
  /\ twin' = other
  /\ spansStarted' = spansStarted + Count(out.trace, "NewChild")
  /\ spansFinished' = spansFinished + Count(out.trace, "Finish")
  /\ UNCHANGED conn

CallPrepare ==
  \E query \in Queries, resp \in Responses :
    Called("Prepare", Input(NilCtx, query, NoArgs, resp, 0),
           Prepare(conn, query, resp), Prepare(conn, query, resp))

CallClose ==
  \E resp \in ErrResponses :
    Called("Close", Input(NilCtx, NoQuery, NoArgs, resp, 0),
           Close(conn, resp), Close(conn, resp))

CallBegin ==
  \E resp \in Responses :
    Called("Begin", Input(NilCtx, NoQuery, NoArgs, resp, 0),
           Begin(conn, resp), Begin(conn, resp))

CallBeginTx ==
  \E ctx \in Contexts, txo \in TxOptions, resp \in Responses, el \in Elapsed :
    Called("BeginTx", Input(ctx, NoQuery, <<txo>>, resp, el),
           BeginTx(conn, ctx, txo, resp, el),
           BeginTx(Included(conn, OpSQLTxBegin), ctx, txo, resp, el))

CallPrepareContext ==
  \E ctx \in Contexts, query \in Queries, resp \in Responses, el \in Elapsed :
    Called("PrepareContext", Input(ctx, query, NoArgs, resp, el),
           PrepareContext(conn, ctx, query, resp, el),
           PrepareContext(Included(conn, OpSQLPrepare), ctx, query, resp, el))

CallExec ==
  \E query \in Queries, args \in NamedArgs, resp \in Responses :
    LET dargs == namedValueToValue(args)
    IN /\ dargs.err = NoErr
       /\ Called("Exec", Input(NilCtx, query, dargs.vals, resp, 0),
                 Exec(conn, query, dargs.vals, resp), Exec(conn, query, dargs.vals, resp))

CallExecContext ==
  \E ctx \in Contexts, query \in Queries, args \in NamedArgs,
     resp \in Responses, el \in Elapsed :
    Called("ExecContext", Input(ctx, query, args, resp, el),
           ExecContext(conn, ctx, query, args, resp, el),
           ExecContext(Included(conn, OpSQLConnExec), ctx, query, args, resp, el))

CallPing ==
  \E ctx \in Contexts, resp \in ErrResponses, el \in Elapsed :
    Called("Ping", Input(ctx, NoQuery, NoArgs, resp, el),
           Ping(conn, ctx, resp, el),
           Ping(Included(conn, OpSQLPing), ctx, resp, el))

CallQuery ==
  \E query \in Queries, args \in NamedArgs, resp \in Responses :
    LET dargs == namedValueToValue(args)
    IN /\ dargs.err = NoErr
       /\ Called("Query", Input(NilCtx, query, dargs.vals, resp, 0),
                 Query(conn, query, dargs.vals, resp), Query(conn, query, dargs.vals, resp))

CallQueryContext ==
  \E ctx \in Contexts, query \in Queries, args \in NamedArgs,
     resp \in Responses, el \in Elapsed :
    Called("QueryContext", Input(ctx, query, args, resp, el),
           QueryContext(conn, ctx, query, args, resp, el),
           QueryContext(Included(conn, OpSQLConnQuery), ctx, query, args, resp, el))

CallCheckNamedValue ==
  \E args \in NamedArgs, resp \in ErrResponses :
    /\ Len(args) = 1
    /\ Called("CheckNamedValue", Input(NilCtx, NoQuery, args, resp, 0),
              CheckNamedValue(conn, args[1], resp), CheckNamedValue(conn, args[1], resp))

Next ==
  \/ CallPrepare
  \/ CallClose
  \/ CallBegin
  \/ CallBeginTx
  \/ CallPrepareContext
  \/ CallExec
  \/ CallExecContext
  \/ CallPing
  \/ CallQuery
  \/ CallQueryContext
  \/ CallCheckNamedValue

Spec == Init /\ [][Next]_vars

TypeOK ==
  /\ conn.opts \in Options /\ conn.Parent \in Parents
  /\ spansStarted \in 0..MaxSpans
  /\ spansFinished \in 0..MaxSpans

\* ----------------------------------------------------------------- claims
Logs(trace) == SelectSeq(trace, LAMBDA e : e.ev = "Log")

ContextOps == {"BeginTx", "PrepareContext", "ExecContext", "QueryContext"}
ArgOps == {"ExecContext", "QueryContext"}

\* the kind, the optional interfaces and the legacy method of each operation
KindOf(name) ==
  CASE name = "BeginTx" -> OpSQLTxBegin
    [] name = "PrepareContext" -> OpSQLPrepare
    [] name = "ExecContext" -> OpSQLConnExec
    [] name = "QueryContext" -> OpSQLConnQuery
    [] name = "Ping" -> OpSQLPing

ModernOf(name) ==
  CASE name = "BeginTx" -> "ConnBeginTx"
    [] name = "PrepareContext" -> "ConnPrepareContext"
    [] name = "ExecContext" -> "ExecerContext"
    [] name = "QueryContext" -> "QueryerContext"
    [] name = "Ping" -> "Pinger"
    [] name = "CheckNamedValue" -> "NamedValueChecker"

LegacyOf(name) ==
  CASE name = "BeginTx" -> "Begin"
    [] name = "PrepareContext" -> "Prepare"
    [] name = "ExecContext" -> "Exec"
    [] name = "QueryContext" -> "Query"

\* the parent implements the legacy form of the operation (Begin and Prepare
\* belong to driver.Conn itself)
HasLegacy(name) ==
  CASE name = "ExecContext" -> "Execer" \in conn.Parent
    [] name = "QueryContext" -> "Queryer" \in conn.Parent
    [] OTHER -> TRUE

HasModern(name) == ModernOf(name) \in conn.Parent

\* the last call was instrumented: its kind is not excluded and the method
\* did not leave before the span (QueryContext without any capability, Ping
\* without a pinger)
Instrumented ==
  /\ op \in ContextOps \cup {"Ping"}
  /\ KindOf(op) \notin conn.opts.excludedOps
  /\ op = "QueryContext" => (HasModern(op) \/ HasLegacy(op))
  /\ op = "Ping" => HasModern(op)

Excluded ==
  /\ op \in ContextOps \cup {"Ping"}
  /\ KindOf(op) \in conn.opts.excludedOps
  /\ op = "Ping" => HasModern(op)

LegacyCalled == \E i \in 1..Len(result.trace) :
  /\ result.trace[i].ev = "Parent"
  /\ result.trace[i].method = LegacyOf(op)

\* C1 (as stated): a context-accepting operation on a parent without the
\* modern capability, called with a context that is already cancelled, never
\* invokes the parent's legacy method and returns the context's error.
C1_CancelledNeverCallsLegacy ==
  (op \in ContextOps /\ ~HasModern(op) /\ Done(input.ctx))
    => (~LegacyCalled /\ result.err = Err(input.ctx))

\* C2 (as stated): ExecContext and QueryContext on a parent implementing
\* neither the modern nor the legacy interface return driver.ErrSkip and
\* create no span.
C2_NoCapabilityReturnsErrSkip ==
  (op \in ArgOps /\ ~HasModern(op) /\ ~HasLegacy(op))
    => (result.err = ErrSkip /\ Count(result.trace, "NewChild") = 0)

\* C3: Ping on a parent that is not a driver.Pinger returns nil, emits
\* exactly one log record, of the dummy-ping kind with zero duration, and
\* creates no span, whatever the exclusion set and the context.
C3_DummyPing ==
  (op = "Ping" /\ ~HasModern("Ping"))
    => /\ result.err = NoErr
       /\ Count(result.trace, "NewChild") = 0
       /\ Len(Logs(result.trace)) = 1
       /\ Logs(result.trace)[1].kind = OpSQLDummyPing
       /\ Logs(result.trace)[1].kv = [duration |-> 0]

C3_Witness ==
  /\ op = "Ping" /\ ~HasModern("Ping")
  /\ OpSQLPing \in conn.opts.excludedOps
  /\ Done(input.ctx)
  /\ Len(Logs(result.trace)) = 1

\* an artifact without the options of the decorator that made it
Bare(art) ==
  IF art = NilArt THEN art
  ELSE [type |-> art.type, ctx |-> art.ctx, parent |-> art.parent]

\* C4: an instrumented operation whose kind is excluded creates no span and
\* emits no log record with a duration, and it makes the same calls on the
\* parent and returns the same artifact and error as the same call with the
\* kind not excluded.
C4_ExclusionOnlyRemovesInstrumentation ==
  Excluded
    => /\ Count(result.trace, "NewChild") = 0
       /\ \A i \in 1..Len(result.trace) :
            result.trace[i].ev = "Log" => "duration" \notin DOMAIN result.trace[i].kv
       /\ ParentCalls(result.trace) = ParentCalls(twin.trace)
       /\ result.err = twin.err
       /\ Bare(result.art) = Bare(twin.art)

C4_Witness ==
  /\ Excluded
  /\ op = "ExecContext"
  /\ Count(twin.trace, "NewChild") = 1
  /\ Len(ParentCalls(result.trace)) = 1
  /\ result.err = ErrParent

\* C5: an operation makes at most one call on the parent; an error it returns
\* is the error that call returned, or, no call having been made, the error
\* of namedValueToValue, driver.ErrSkip or the context's error; and an error
\* returned by the parent is the error of the operation.
C5_ErrorsPassUnchanged ==
  op # "new"
    => LET calls == ParentCalls(result.trace)
       IN /\ Len(calls) <= 1
          /\ Len(calls) = 1 => result.err = input.resp.err
          /\ (Len(calls) = 0 /\ result.err # NoErr)
               => \/ result.err = ErrSkip
                  \/ /\ op \in ArgOps
                     /\ result.err = namedValueToValue(input.args).err
                  \/ /\ op \in ContextOps
                     /\ Done(input.ctx)
                     /\ result.err = Err(input.ctx)

C5_Witness ==
  /\ op = "Begin"
  /\ input.resp = [art |-> "parent artifact", err |-> ErrParent]
  /\ result.err = ErrParent
  /\ Len(ParentCalls(result.trace)) = 1

\* the decorator the operation puts around the artifact of the parent
WrapperOf(name, ctx, query, art) ==
  CASE name = "BeginTx" -> wrappedTx(conn.opts, ctx, art)
    [] name = "PrepareContext" -> wrappedStmt(conn.opts, ctx, query, art)
    [] name = "ExecContext" -> wrappedResult(conn.opts, ctx, art)
    [] name = "QueryContext" -> wrappedRows(conn.opts, ctx, art)

\* C6: when the parent implements the modern capability of an operation, the
\* operation makes exactly one call on the parent, the modern one, with the
\* caller's context, query and arguments, returns the error of that call
\* and, the call having succeeded, the decorator of the artifact it returned.
C6_ModernDelegation ==
  (op \in ContextOps \cup {"Ping", "CheckNamedValue"} /\ HasModern(op))
    => /\ ParentCalls(result.trace)
            = <<ParentCall(op, input.ctx, input.query, input.args)>>
       /\ result.err = input.resp.err
       /\ (op \in ContextOps /\ input.resp.err = NoErr)
            => result.art = WrapperOf(op, input.ctx, input.query, input.resp.art)

C6_Witness ==
  /\ op = "QueryContext"
  /\ conn.Parent = Capabilities
  /\ input.resp = [art |-> "parent artifact", err |-> NoErr]
  /\ Len(input.args) = 1
  /\ result.art.type = "wrappedRows"

\* the legacy method of the decorator, called with the converted arguments
LegacyOutcome ==
  CASE op = "BeginTx" -> Begin(conn, input.resp)
    [] op = "PrepareContext" -> Prepare(conn, input.query, input.resp)
    [] op = "ExecContext" ->
         Exec(conn, input.query, namedValueToValue(input.args).vals, input.resp)
    [] op = "QueryContext" ->
         Query(conn, input.query, namedValueToValue(input.args).vals, input.resp)

Converts(name, args) == name \in ArgOps => namedValueToValue(args).err = NoErr

\* the artifact of the parent inside a decorator
Inner(art) == IF art = NilArt THEN art ELSE [type |-> art.type, parent |-> art.parent]

\* C7: for a parent implementing only the legacy form and a context that is
\* not cancelled, the context-accepting method makes the call and returns
\* the artifact or the error that the legacy method does, called once with
\* the values namedValueToValue makes of the arguments.
C7_FallbackEqualsLegacy ==
  (/\ op \in ContextOps /\ ~HasModern(op) /\ HasLegacy(op)
   /\ ~Done(input.ctx) /\ Converts(op, input.args))
    => /\ ParentCalls(result.trace) = LegacyOutcome.trace
       /\ Len(ParentCalls(result.trace)) = 1
       /\ result.err = LegacyOutcome.err
       /\ Inner(result.art) = Inner(LegacyOutcome.art)

C7_Witness ==
  /\ op = "QueryContext" /\ ~HasModern(op) /\ HasLegacy(op)
  /\ ~Done(input.ctx)
  /\ input.el = 2
  /\ Len(input.args) = 1 /\ Converts(op, input.args)
  /\ result.art.type = "wrappedRows"

\* C8: a call that starts a span starts one, finishes it once and emits one
\* log record before it returns, on every return path; no span is left
\* unfinished, and as many spans are finished as were started.
C8_SpansFinishedOnce ==
  /\ spansFinished = spansStarted
  /\ Count(result.trace, "NewChild") <= 1
  /\ Count(result.trace, "Finish") = Count(result.trace, "NewChild")
  /\ Count(result.trace, "NewChild") = 1 => Count(result.trace, "Log") = 1
  /\ Instrumented => Count(result.trace, "NewChild") = 1

C8_Witness ==
  /\ op = "ExecContext"
  /\ Instrumented
  /\ result.err = ErrNamedParams
  /\ spansStarted = 1 /\ spansFinished = 1

\* C9: an instrumented call starts the span, then calls the parent (if it
\* does), then sets the error on the span, finishes the span and emits the
\* log record; the error set on the span and logged is the error returned.
C9_OrderAndError ==
  Instrumented
    => LET t == result.trace
           n == Len(t)
       IN /\ n >= 4
          /\ t[1] = NewChild(KindOf(op))
          /\ \A i \in 2..(n - 3) : t[i].ev \in {"SetLabel", "Parent"}
          /\ \A i, j \in 2..(n - 3) :
               (t[i].ev = "Parent" /\ t[j].ev = "SetLabel") => j < i
          /\ t[n - 2] = SetError(result.err)
          /\ t[n - 1] = Finish
          /\ t[n].ev = "Log"
          /\ t[n].kind = KindOf(op)
          /\ t[n].kv.err = result.err

C9_Witness ==
  /\ op = "PrepareContext"
  /\ Instrumented
  /\ HasModern(op)
  /\ result.err = ErrParent
  /\ Len(ParentCalls(result.trace)) = 1

\* the call took the legacy fallback of ExecContext or QueryContext
Fallback == op \in ArgOps /\ ~HasModern(op) /\ (op = "QueryContext" => HasLegacy(op))

====
